---- MODULE Spec2Model ----
(***************************************************************************)
(* Share-of-voice agent: the brand matcher and the sentiment score         *)
(* (BrandSentimentTool), the aggregator (SOVTool), the collection          *)
(* (YouTubeTool), the run of the agent script (module startup and main)    *)
(* and the dashboard that launches it (streamlit_app.py).                  *)
(*                                                                         *)
(* A text is a sequence of one-character strings.  Ratios that the code    *)
(* computes in floating point are modelled as exact rationals in lowest    *)
(* terms ([num, den] with den > 0), so equal values are equal records.     *)
(* The agent launched by the dashboard is a subprocess the dashboard waits *)
(* for: its steps are the steps of the agent run from the command line.    *)
(***************************************************************************)
EXTENDS Integers, Sequences, FiniteSets, TLC

VARIABLES
    pc,                  \* position of the running operation
    brands,              \* BrandSentimentTool.brands: the catalog given to the matcher
    text,                \* argument of detect_brands and of sentiment_score
    counts,              \* value returned by detect_brands
    all_records,         \* argument of compute_overall_and_by_keyword, all_records of main
    overall_sov,         \* its local overall_sov
    records_by_keyword,  \* its local records_by_keyword (keyword -> records)
    kw_keys,             \* the keys of records_by_keyword in insertion order
    sov_by_keyword,      \* its local sov_by_keyword (keyword -> result)
    idx,                 \* position of "for rec in all_records"
    score,               \* value returned by sentiment_score
    env,                 \* the secrets found in the environment of the agent
    youtube,             \* the YouTube service: its response to each keyword
    requests,            \* the kinds of request the running agent has sent
    files,               \* the persisted documents (working directory)
    exception,           \* the exception that ended the agent, "none" otherwise
    kw_i,                \* position of "for kw in KEYWORDS"
    dash,                \* position of the dashboard script
    clicked,             \* value of st.sidebar.button(...) in this run of the script
    cache,               \* st.cache_data of load_overall_sov / load_sov_by_keyword
    overall_raw,         \* overall_raw of the dashboard's main
    by_kw_raw,           \* by_kw_raw of the dashboard's main
    reruns               \* number of runs of the dashboard script so far

matcherVars == <<brands, text, counts>>

computeLocals == <<overall_sov, records_by_keyword, kw_keys, sov_by_keyword,
                   idx>>

aggregatorVars == <<all_records, computeLocals>>

sentimentVars == <<score>>

agentVars == <<env, youtube, requests, files, exception, kw_i>>

dashVars == <<dash, clicked, cache, overall_raw, by_kw_raw, reruns>>

vars == <<pc, matcherVars, aggregatorVars, sentimentVars, agentVars, dashVars>>

(***************************************************************************)
(* Bounds of the model                                                     *)
(***************************************************************************)
MaxLen == 5              \* longest enumerated text of the matcher runs
MaxRecords == 2          \* longest list of records given to the aggregator
MaxTokens == 3           \* most pieces in an enumerated text of the sentiment runs
MaxComments == 2         \* stands for max_comments = 50 of fetch_comments
MaxReruns == 3           \* most runs of the dashboard script

(***************************************************************************)
(* Characters and strings                                                  *)
(***************************************************************************)
UpperLetters ==
    <<"A", "B", "C", "D", "E", "F", "G", "H", "I", "J", "K", "L", "M", "N", "O", "P", "Q", "R", "S", "T", "U", "V", "W", "X", "Y", "Z">>

LowerLetters ==
    <<"a", "b", "c", "d", "e", "f", "g", "h", "i", "j", "k", "l", "m", "n", "o", "p", "q", "r", "s", "t", "u", "v", "w", "x", "y", "z">>

Digits ==
    {"0", "1", "2", "3", "4", "5", "6", "7", "8", "9"}

\* the characters the regex class \w accepts
WordChars ==
    {UpperLetters[i] : i \in 1..26} \cup {LowerLetters[i] : i \in 1..26}
        \cup Digits \cup {"_"}

\* upper-case letter -> lower-case letter
LowerTable ==
    [c \in {UpperLetters[i] : i \in 1..26} |->
        LowerLetters[CHOOSE i \in 1..26 : UpperLetters[i] = c]]

\* str.lower() on one character
LowerChar(c) ==
    IF c \in DOMAIN LowerTable THEN LowerTable[c] ELSE c

\* str.lower()
lower(s) ==
    [i \in 1..Len(s) |-> LowerChar(s[i])]

\* all sequences over S of length at most n
SeqUpTo(S, n) ==
    UNION {[1..k -> S] : k \in 0..n}

(***************************************************************************)
(* Configuration                                                           *)
(***************************************************************************)
\* BRANDS: brand name -> list of aliases
BRANDS ==
    "atomberg" :> <<<<"a", "t", "o", "m", "b", "e", "r", "g">>,
            <<"a", "t", "o", "m", " ", "b", "e", "r", "g">>>> @@
    "havells" :> <<<<"h", "a", "v", "e", "l", "l", "s">>>> @@
    "crompton" :> <<<<"c", "r", "o", "m", "p", "t", "o", "n">>>> @@
    "orient" :> <<<<"o", "r", "i", "e", "n", "t">>,
            <<"o", "r", "i", "e", "n", "t", " ", "e", "l", "e", "c", "t", "r", "i", "c">>>> @@
    "usha" :> <<<<"u", "s", "h", "a">>>> @@
    "bajaj" :> <<<<"b", "a", "j", "a", "j">>>> @@
    "luminous" :> <<<<"l", "u", "m", "i", "n", "o", "u", "s">>>>

\* list(BRANDS.keys())
BrandsKeys ==
    <<"atomberg", "havells", "crompton", "orient", "usha", "bajaj", "luminous">>

\* a two-brand catalog of one-letter aliases
CatalogAB ==
    "A" :> <<<<"a">>>> @@
    "B" :> <<<<"b">>>>

\* a brand whose alias is contained in another brand's multi-word alias,
\* and an alias written in upper case
CatalogNested ==
    "A" :> <<<<"a">>>> @@
    "AB" :> <<<<"a", " ", "b">>,
            <<"B">>>>

\* a multi-word alias that repeats a word
CatalogRepeat ==
    "AA" :> <<<<"a", " ", "a">>>>

(***************************************************************************)
(* BrandSentimentTool                                                      *)
(***************************************************************************)
\* s[p] exists and is a \w character
IsWordAt(s, p) ==
    p >= 1 /\ p <= Len(s) /\ s[p] \in WordChars

\* mutant of WordBoundary: the pattern is compiled without \b
WordBoundary_Absent(s, p) ==
    TRUE

\* the regex assertion \b holds in front of position p of s
WordBoundary(s, p) ==
    IsWordAt(s, p - 1) # IsWordAt(s, p)

\* re.compile(r"\b" + re.escape(alias.lower()) + r"\b", re.IGNORECASE):
\* the pattern is kept as the lower-cased alias
compile_patterns(catalog) ==
    [b \in DOMAIN catalog |->
        [k \in 1..Len(catalog[b]) |-> lower(catalog[b][k])]]

\* the pattern matches s at position i (re.IGNORECASE compares folded case)
MatchAt(pat, s, i) ==
    /\ i + Len(pat) - 1 <= Len(s)
    /\ \A k \in 1..Len(pat) : LowerChar(s[i + k - 1]) = LowerChar(pat[k])
    /\ WordBoundary(s, i)
    /\ WordBoundary(s, i + Len(pat))

\* len(pat.findall(s)) scanning from position i: matches are taken left to
\* right and the scan resumes after the end of each match
RECURSIVE findall(_, _, _)
findall(pat, s, i) ==
    IF i > Len(s) THEN 0
    ELSE IF MatchAt(pat, s, i) THEN 1 + findall(pat, s, i + Len(pat))
    ELSE findall(pat, s, i + 1)

\* sum of f[k] for k in 1..n
RECURSIVE SumTo(_, _)
SumTo(f, n) ==
    IF n = 0 THEN 0 ELSE f[n] + SumTo(f, n - 1)

\* BrandSentimentTool.detect_brands
detect_brands(txt, catalog) ==
    LET text_l == lower(txt)
        pats == compile_patterns(catalog)
    IN  [b \in DOMAIN catalog |->
            SumTo([k \in 1..Len(pats[b]) |-> findall(pats[b][k], text_l, 1)],
                  Len(pats[b]))]

\* the lexicons of sentiment_score
POSITIVE_WORDS ==
    <<<<"g", "o", "o", "d">>,
      <<"g", "r", "e", "a", "t">>,
      <<"l", "o", "v", "e">>,
      <<"a", "w", "e", "s", "o", "m", "e">>,
      <<"a", "m", "a", "z", "i", "n", "g">>,
      <<"b", "e", "s", "t">>,
      <<"e", "x", "c", "e", "l", "l", "e", "n", "t">>,
      <<"e", "f", "f", "i", "c", "i", "e", "n", "t">>,
      <<"s", "i", "l", "e", "n", "t">>,
      <<"q", "u", "i", "e", "t">>,
      <<"w", "o", "r", "t", "h">>,
      <<"r", "e", "c", "o", "m", "m", "e", "n", "d", "e", "d">>,
      <<"h", "a", "p", "p", "y">>,
      <<"s", "a", "t", "i", "s", "f", "i", "e", "d">>,
      <<"e", "n", "e", "r", "g", "y", " ", "s", "a", "v", "i", "n", "g">>,
      <<"s", "a", "v", "e", "s", " ", "e", "l", "e", "c", "t", "r", "i", "c", "i", "t", "y">>>>

NEGATIVE_WORDS ==
    <<<<"b", "a", "d">>,
      <<"w", "o", "r", "s", "t">>,
      <<"h", "a", "t", "e">>,
      <<"p", "r", "o", "b", "l", "e", "m">>,
      <<"i", "s", "s", "u", "e", "s">>,
      <<"n", "o", "i", "s", "y">>,
      <<"n", "o", "i", "s", "e">>,
      <<"d", "i", "s", "a", "p", "p", "o", "i", "n", "t", "e", "d">>,
      <<"w", "a", "s", "t", "e">>,
      <<"p", "o", "o", "r">>,
      <<"s", "l", "o", "w">>,
      <<"n", "o", "t", " ", "g", "o", "o", "d">>,
      <<"n", "o", "t", " ", "w", "o", "r", "t", "h">>>>

\* mutant of StrCount: occurrences that overlap each other are all counted
RECURSIVE StrCount_Overlapping(_, _, _)
StrCount_Overlapping(w, s, i) ==
    IF i + Len(w) - 1 > Len(s) THEN 0
    ELSE IF SubSeq(s, i, i + Len(w) - 1) = w
         THEN 1 + StrCount_Overlapping(w, s, i + 1)
         ELSE StrCount_Overlapping(w, s, i + 1)

\* str.count(w) from position i: non-overlapping occurrences of w in s
RECURSIVE StrCount(_, _, _)
StrCount(w, s, i) ==
    IF i + Len(w) - 1 > Len(s) THEN 0
    ELSE IF SubSeq(s, i, i + Len(w) - 1) = w
         THEN 1 + StrCount(w, s, i + Len(w))
         ELSE StrCount(w, s, i + 1)

\* sum(text_l.count(w) for w in words)
LexiconHits(words, text_l) ==
    SumTo([k \in 1..Len(words) |-> StrCount(words[k], text_l, 1)], Len(words))

(***************************************************************************)
(* Rationals in lowest terms, standing for the code's floats               *)
(***************************************************************************)
RECURSIVE GCD(_, _)
GCD(a, b) ==
    IF b = 0 THEN a ELSE GCD(b, a % b)

Abs(n) ==
    IF n < 0 THEN 0 - n ELSE n

\* n / d for d > 0
Rat(n, d) ==
    LET g == GCD(Abs(n), d)
    IN  [num |-> n \div g, den |-> d \div g]

RatZero ==
    [num |-> 0, den |-> 1]

RatOne ==
    [num |-> 1, den |-> 1]

RatAdd(x, y) ==
    Rat(x.num * y.den + y.num * x.den, x.den * y.den)

\* x / y for y > 0
RatDiv(x, y) ==
    Rat(x.num * y.den, x.den * y.num)

\* the sum of f over the set S
RECURSIVE RatSumOverSet(_, _)
RatSumOverSet(f, S) ==
    IF S = {} THEN RatZero
    ELSE LET x == CHOOSE y \in S : TRUE
         IN  RatAdd(f[x], RatSumOverSet(f, S \ {x}))

RatPositive(x) ==
    x.num > 0

RatLeq(x, y) ==
    x.num * y.den <= y.num * x.den

\* BrandSentimentTool.sentiment_score
sentiment_score(txt) ==
    LET text_l == lower(txt)
        pos == LexiconHits(POSITIVE_WORDS, text_l)
        neg == LexiconHits(NEGATIVE_WORDS, text_l)
    IN  IF pos = 0 /\ neg = 0 THEN RatZero
        ELSE Rat(pos - neg, IF pos + neg > 1 THEN pos + neg ELSE 1)

(***************************************************************************)
(* SOVTool                                                                 *)
(***************************************************************************)
\* a defaultdict with no key
EmptyDict ==
    [b \in {} |-> 0]

\* reading a defaultdict: a missing key reads as the default
DGet(d, k, default) ==
    IF k \in DOMAIN d THEN d[k] ELSE default

\* the brands with a positive count
Mentioned(brand_counts) ==
    {b \in DOMAIN brand_counts : brand_counts[b] > 0}

\* mutant of any_brand_here: all() in place of any()
any_brand_here_All(brand_counts) ==
    \A b \in DOMAIN brand_counts : brand_counts[b] > 0

\* any(c > 0 for c in brand_counts_post.values())
any_brand_here(brand_counts) ==
    \E b \in DOMAIN brand_counts : brand_counts[b] > 0

\* mutant of engagement_of: likes and comments are not weighted
engagement_of_Unweighted(rec) ==
    rec.views + rec.likes + rec.comments_count

\* engagement heuristic: views + 10*likes + 20*comment_count
engagement_of(rec) ==
    rec.views + 10 * rec.likes + 20 * rec.comments_count

\* mutant of engagement_total_after: a record is added once, not per brand
engagement_total_after_Once(total, engagement, hit) ==
    total + (IF hit # {} THEN engagement ELSE 0)

\* engagement_total after the loop over the brands of one record:
\* engagement is added once for every mentioned brand
engagement_total_after(total, engagement, hit) ==
    total + engagement * Cardinality(hit)

\* mutant of comment_increment: a comment counts once per brand
comment_increment_Once(count) ==
    1

\* comment_mentions[brand] += count
comment_increment(count) ==
    count

\* mutant of counts_as_positive: every non-neutral comment is added
counts_as_positive_NonZero(s) ==
    s.num # 0

\* if s > 0
counts_as_positive(s) ==
    RatPositive(s)

\* mutant of positive_increment: the score is added once per match
positive_increment_PerMatch(s, count) ==
    Rat(s.num * count, s.den)

\* positive_voice[brand] += s: the score, whatever the number of matches
positive_increment(s, count) ==
    s

\* the accumulators before the first record
InitialAcc ==
    [post_mentions |-> EmptyDict,
     total_posts_with_any_brand |-> 0,
     engagement_per_brand |-> EmptyDict,
     engagement_total |-> 0,
     comment_mentions |-> EmptyDict,
     positive_voice |-> EmptyDict,
     total_positive_voice |-> RatZero]

\* the body of "for c in rec['comments']" for one comment
CommentStep(acc, c, catalog) ==
    LET brand_counts_comment == detect_brands(c.text, catalog)
        s == sentiment_score(c.text)
        hit == Mentioned(brand_counts_comment)
        pv == IF counts_as_positive(s) THEN hit ELSE {}
    IN  [acc EXCEPT
            !.comment_mentions =
                [b \in DOMAIN acc.comment_mentions \cup hit |->
                    DGet(acc.comment_mentions, b, 0)
                        + (IF b \in hit
                           THEN comment_increment(brand_counts_comment[b])
                           ELSE 0)],
            !.positive_voice =
                [b \in DOMAIN acc.positive_voice \cup pv |->
                    IF b \in pv
                    THEN RatAdd(DGet(acc.positive_voice, b, RatZero),
                                positive_increment(s, brand_counts_comment[b]))
                    ELSE acc.positive_voice[b]],
            !.total_positive_voice =
                RatAdd(acc.total_positive_voice,
                       RatSumOverSet(
                           [b \in pv |->
                               positive_increment(s, brand_counts_comment[b])],
                           pv))]

RECURSIVE CommentLoop(_, _, _, _)
CommentLoop(acc, comments, k, catalog) ==
    IF k > Len(comments) THEN acc
    ELSE CommentLoop(CommentStep(acc, comments[k], catalog),
                     comments, k + 1, catalog)

\* the body of "for rec in records" for one record
RecordStep(acc, rec, catalog) ==
    LET post_text == rec.title \o <<"\n">> \o rec.description
        brand_counts_post == detect_brands(post_text, catalog)
        hit == Mentioned(brand_counts_post)
        engagement == engagement_of(rec)
        posts ==
            [acc EXCEPT
                !.total_posts_with_any_brand =
                    IF any_brand_here(brand_counts_post) THEN @ + 1 ELSE @,
                !.post_mentions =
                    [b \in DOMAIN acc.post_mentions \cup hit |->
                        DGet(acc.post_mentions, b, 0)
                            + (IF b \in hit THEN 1 ELSE 0)],
                !.engagement_per_brand =
                    [b \in DOMAIN acc.engagement_per_brand \cup hit |->
                        DGet(acc.engagement_per_brand, b, 0)
                            + (IF b \in hit THEN engagement ELSE 0)],
                !.engagement_total =
                    engagement_total_after(@, engagement, hit)]
    IN  CommentLoop(posts, rec.comments, 1, catalog)

RECURSIVE RecordLoop(_, _, _, _)
RecordLoop(acc, records, k, catalog) ==
    IF k > Len(records) THEN acc
    ELSE RecordLoop(RecordStep(acc, records[k], catalog),
                    records, k + 1, catalog)

\* the value a division by zero would raise
ZeroDivisionError ==
    [num |-> 0, den |-> 0]

\* mutant of Ratio: the division is not guarded
Ratio_Unguarded(n, d) ==
    IF RatPositive(d) THEN RatDiv(n, d) ELSE ZeroDivisionError

\* "if total > 0: n / total, else 0.0"
Ratio(n, d) ==
    IF RatPositive(d) THEN RatDiv(n, d) ELSE RatZero

\* sum(d.values())
RECURSIVE SumValues(_)
SumValues(d) ==
    IF DOMAIN d = {} THEN 0
    ELSE LET k == CHOOSE x \in DOMAIN d : TRUE
         IN  d[k] + SumValues([x \in DOMAIN d \ {k} |-> d[x]])

\* the loop "for brand in brands" that fills result["metrics"];
\* brands is list(BRANDS.keys()), not the catalog of the matcher
Finalize(acc) ==
    LET total_comment_mentions == SumValues(acc.comment_mentions)
    IN  [brands |-> BrandsKeys,
         metrics |->
            [brand \in {BrandsKeys[k] : k \in 1..Len(BrandsKeys)} |->
                [posts_with_brand |-> DGet(acc.post_mentions, brand, 0),
                 sov_content |->
                    Ratio(Rat(DGet(acc.post_mentions, brand, 0), 1),
                          Rat(acc.total_posts_with_any_brand, 1)),
                 sov_engagement |->
                    Ratio(Rat(DGet(acc.engagement_per_brand, brand, 0), 1),
                          Rat(acc.engagement_total, 1)),
                 sov_comments |->
                    Ratio(Rat(DGet(acc.comment_mentions, brand, 0), 1),
                          Rat(total_comment_mentions, 1)),
                 share_of_positive_voice |->
                    Ratio(DGet(acc.positive_voice, brand, RatZero),
                          acc.total_positive_voice)]]]

\* SOVTool._compute_for_records
compute_for_records(records, catalog) ==
    Finalize(RecordLoop(InitialAcc, records, 1, catalog))

(***************************************************************************)
(* The parts of the state a run does not use                               *)
(***************************************************************************)
\* an optional value: None, or Some(x)
None ==
    <<>>

Some(x) ==
    <<x>>

\* no document persisted yet
NoFiles ==
    [raw |-> None, overall |-> None, by_kw |-> None]

\* nothing cached by st.cache_data
NoCache ==
    [overall |-> None, by_kw |-> None]

\* sentiment_score is not running
SentimentIdle ==
    score = None

\* the agent is not running and nothing is persisted
AgentIdle ==
    /\ env = {}
    /\ youtube = <<>>
    /\ requests = {}
    /\ files = NoFiles
    /\ exception = "none"
    /\ kw_i = 0

\* the dashboard is not running
DashboardIdle ==
    /\ dash = "off"
    /\ clicked = FALSE
    /\ cache = NoCache
    /\ overall_raw = None
    /\ by_kw_raw = None
    /\ reruns = 0

(***************************************************************************)
(* Matcher runs: detect_brands applied to one text                         *)
(***************************************************************************)
TextExample ==
    <<"I", " ", "l", "o", "v", "e", " ", "m", "y", " ", "A", "t", "o", "m", "b", "e", "r", "g", " ", "f", "a", "n", ",", " ", "a", "t", "o", "m", " ", "b", "e", "r", "g", " ", "i", "s", " ", "g", "r", "e", "a", "t">>

TextOrient ==
    <<"O", "r", "i", "e", "n", "t", " ", "E", "l", "e", "c", "t", "r", "i", "c", " ", "v", "s", " ", "o", "r", "i", "e", "n", "t", ",", " ", "U", "S", "H", "A">>

TextInside ==
    <<"a", "t", "o", "m", "b", "e", "r", "g", "s", " ", "p", "u", "s", "h", "a", "r", "d", " ", "u", "s", "h", "a", "_", "1">>

MatcherAlphabet ==
    {"a", "A", "b", " ", ","}

MatcherCatalogs ==
    {BRANDS, CatalogAB, CatalogNested, CatalogRepeat}

MatcherTexts ==
    SeqUpTo(MatcherAlphabet, MaxLen) \cup {TextExample, TextOrient, TextInside}

NoCounts ==
    <<>>

NoResult ==
    [brands |-> <<>>, metrics |-> EmptyDict]

InitMatcher ==
    /\ pc = "detect"
    /\ brands \in MatcherCatalogs
    /\ text \in MatcherTexts
    /\ counts = NoCounts
    /\ all_records = <<>>
    /\ overall_sov = NoResult
    /\ records_by_keyword = EmptyDict
    /\ kw_keys = <<>>
    /\ sov_by_keyword = EmptyDict
    /\ idx = 0
    /\ SentimentIdle
    /\ AgentIdle
    /\ DashboardIdle

DetectBrands ==
    /\ pc = "detect"
    /\ counts' = detect_brands(text, brands)
    /\ pc' = "detected"
    /\ UNCHANGED <<brands, text, all_records, overall_sov, records_by_keyword,
                   kw_keys, sov_by_keyword, idx>>
    /\ UNCHANGED <<sentimentVars, agentVars, dashVars>>

NextMatcher ==
    DetectBrands

SpecMatcher ==
    InitMatcher /\ [][NextMatcher]_vars

(***************************************************************************)
(* Sentiment runs: sentiment_score applied to one text                     *)
(***************************************************************************)
TextGoodGoodBad ==
    <<"g", "o", "o", "d", " ", "g", "o", "o", "d", " ", "b", "a", "d">>

\* the pieces the enumerated texts are made of
SentimentTokens ==
    {<<"g", "o", "o", "d">>,
     <<"G", "o", "o", "d">>,
     <<"b", "a", "d">>,
     <<" ">>,
     <<"n", "o", "t", " ">>,
     <<"d", "i", "s", "a", "p", "p", "o", "i", "n", "t", "e", "d">>,
     <<"i", "s", "a", "p", "p", "o", "i", "n", "t", "e", "d">>,
     <<"n", "e", "s", "s">>,
     <<"g", "r", "e", "a", "t">>}

\* the concatenation of a sequence of texts
RECURSIVE Join(_)
Join(ts) ==
    IF ts = <<>> THEN <<>> ELSE Head(ts) \o Join(Tail(ts))

SentimentTexts ==
    {Join(ts) : ts \in SeqUpTo(SentimentTokens, MaxTokens)} \cup {TextGoodGoodBad}

InitSentiment ==
    /\ pc = "score"
    /\ text \in SentimentTexts
    /\ score = None
    /\ brands = BRANDS
    /\ counts = NoCounts
    /\ all_records = <<>>
    /\ overall_sov = NoResult
    /\ records_by_keyword = EmptyDict
    /\ kw_keys = <<>>
    /\ sov_by_keyword = EmptyDict
    /\ idx = 0
    /\ AgentIdle
    /\ DashboardIdle

\* s = brand_tool.sentiment_score(text)
SentimentScore ==
    /\ pc = "score"
    /\ score' = Some(sentiment_score(text))
    /\ pc' = "scored"
    /\ UNCHANGED <<matcherVars, aggregatorVars, agentVars, dashVars>>

NextSentiment ==
    SentimentScore

SpecSentiment ==
    InitSentiment /\ [][NextSentiment]_vars

(***************************************************************************)
(* Aggregator runs: compute_overall_and_by_keyword on a list of records    *)
(***************************************************************************)
TitleA ==
    <<"a">>

TitleAtomberg ==
    <<"A", "t", "o", "m", "b", "e", "r", "g", " ", "f", "a", "n">>

TitleUsha ==
    <<"u", "s", "h", "a", " ", "v", "s", " ", "a", "t", "o", "m", " ", "b", "e", "r", "g">>

DescriptionEmpty ==
    <<>>

DescriptionB ==
    <<"b">>

CommentGoodAB ==
    <<"g", "o", "o", "d", " ", "a", " ", "b">>

CommentThriceUsha ==
    <<"u", "s", "h", "a", " ", "u", "s", "h", "a", " ", "u", "s", "h", "a", " ", "i", "s", " ", "g", "o", "o", "d", " ", "g", "o", "o", "d", " ", "b", "a", "d">>

CommentBadAtomberg ==
    <<"b", "a", "d", " ", "a", "t", "o", "m", "b", "e", "r", "g">>

CommentTwoBrands ==
    <<"g", "r", "e", "a", "t", " ", "h", "a", "v", "e", "l", "l", "s", " ", "a", "n", "d", " ", "u", "s", "h", "a">>

\* <<title, description>> of the records without comments: one brand of
\* CatalogAB, both, one brand of BRANDS alone and beside B, two of BRANDS
Posts ==
    {<<TitleA, DescriptionEmpty>>, <<TitleA, DescriptionB>>,
     <<TitleAtomberg, DescriptionEmpty>>, <<TitleAtomberg, DescriptionB>>,
     <<TitleUsha, DescriptionEmpty>>}

\* <<keyword, views, likes, comments_count>> of the records without comments
PostSources ==
    {<<"smart fan", 100, 0, 0>>, <<"bldc fan", 300, 0, 0>>}

\* <<views, likes, comments_count>> of the records with comments
CommentStats ==
    <<1, 2, 3>>

CommentTexts ==
    {CommentGoodAB, CommentThriceUsha, CommentBadAtomberg, CommentTwoBrands,
     TextExample}

\* the comment lists of the records with comments: a positive comment
\* naming one brand twice, one naming a brand three times, a negative one,
\* a positive one naming two brands, and a list of two comments
CommentLists ==
    {<<TextExample>>, <<CommentThriceUsha>>, <<CommentBadAtomberg>>,
     <<CommentTwoBrands>>, <<CommentGoodAB, CommentBadAtomberg>>}

\* records whose comment list is empty
PostRecords ==
    {[keyword |-> so[1], title |-> po[1], description |-> po[2],
      views |-> so[2], likes |-> so[3], comments_count |-> so[4],
      comments |-> <<>>] : po \in Posts, so \in PostSources}

\* records with comments, likes and a comment count
CommentRecords ==
    {[keyword |-> "smart fan", title |-> TitleAtomberg,
      description |-> DescriptionEmpty,
      views |-> CommentStats[1], likes |-> CommentStats[2],
      comments_count |-> CommentStats[3],
      comments |-> [k \in DOMAIN cs |-> [text |-> cs[k]]]] :
        cs \in CommentLists}

\* records that mention a brand and have no view, like or comment
ZeroRecords ==
    {[keyword |-> "bldc fan", title |-> ti, description |-> DescriptionEmpty,
      views |-> 0, likes |-> 0, comments_count |-> 0,
      comments |-> <<>>] : ti \in {TitleAtomberg}}

RecordPool ==
    PostRecords \cup ZeroRecords \cup CommentRecords

AggregatorCatalogs ==
    {BRANDS, CatalogAB}

Init ==
    /\ pc = "compute_overall"
    /\ brands \in AggregatorCatalogs
    /\ all_records \in SeqUpTo(RecordPool, MaxRecords)
    /\ overall_sov = NoResult
    /\ records_by_keyword = EmptyDict
    /\ kw_keys = <<>>
    /\ sov_by_keyword = EmptyDict
    /\ idx = 0
    /\ text = <<>>
    /\ counts = NoCounts
    /\ SentimentIdle
    /\ AgentIdle
    /\ DashboardIdle

\* overall_sov = self._compute_for_records(all_records, brand_tool)
ComputeOverall ==
    /\ pc = "compute_overall"
    /\ overall_sov' = compute_for_records(all_records, brands)
    /\ idx' = 1
    /\ pc' = "group"
    /\ UNCHANGED <<brands, text, counts, all_records, records_by_keyword,
                   kw_keys, sov_by_keyword>>
    /\ UNCHANGED <<sentimentVars, agentVars, dashVars>>

\* mutant of group_key: every record is filed under the first keyword seen
group_key_First(rec, keys) ==
    IF keys = <<>> THEN rec.keyword ELSE keys[1]

\* the key under which a record is filed: rec["keyword"]
group_key(rec, keys) ==
    rec.keyword

\* records_by_keyword[rec["keyword"]].append(rec), one record per step
GroupRecord ==
    /\ pc = "group"
    /\ idx <= Len(all_records)
    /\ LET rec == all_records[idx]
           kw == group_key(rec, kw_keys)
       IN  /\ records_by_keyword' =
                [k \in DOMAIN records_by_keyword \cup {kw} |->
                    IF k = kw
                    THEN Append(DGet(records_by_keyword, k, <<>>), rec)
                    ELSE records_by_keyword[k]]
           /\ kw_keys' =
                IF kw \in DOMAIN records_by_keyword THEN kw_keys
                ELSE Append(kw_keys, kw)
    /\ idx' = idx + 1
    /\ UNCHANGED <<pc, brands, text, counts, all_records, overall_sov,
                   sov_by_keyword>>
    /\ UNCHANGED <<sentimentVars, agentVars, dashVars>>

\* sov_by_keyword[kw] = self._compute_for_records(recs, brand_tool) for the
\* next key of records_by_keyword
ComputeKeyword ==
    /\ pc = "group"
    /\ idx > Len(all_records)
    /\ Cardinality(DOMAIN sov_by_keyword) < Len(kw_keys)
    /\ LET kw == kw_keys[Cardinality(DOMAIN sov_by_keyword) + 1]
           recs == records_by_keyword[kw]
       IN  sov_by_keyword' =
                [k \in DOMAIN sov_by_keyword \cup {kw} |->
                    IF k = kw THEN compute_for_records(recs, brands)
                    ELSE sov_by_keyword[k]]
    /\ UNCHANGED <<pc, brands, text, counts, all_records, overall_sov,
                   records_by_keyword, kw_keys, idx>>
    /\ UNCHANGED <<sentimentVars, agentVars, dashVars>>

\* return overall_sov, sov_by_keyword
Return ==
    /\ pc = "group"
    /\ idx > Len(all_records)
    /\ Cardinality(DOMAIN sov_by_keyword) = Len(kw_keys)
    /\ pc' = "returned"
    /\ UNCHANGED <<brands, text, counts, all_records, overall_sov,
                   records_by_keyword, kw_keys, sov_by_keyword, idx>>
    /\ UNCHANGED <<sentimentVars, agentVars, dashVars>>

Next ==
    \/ ComputeOverall
    \/ GroupRecord
    \/ ComputeKeyword
    \/ Return

Spec ==
    Init /\ [][Next]_vars

(***************************************************************************)
(* YouTubeTool: the requests to the service and the records built of them  *)
(***************************************************************************)
KEYWORDS ==
    <<"smart fan", "bldc fan", "smart ceiling fan", "energy saving fan">>

DigitValue ==
    ("0" :> 0) @@ ("1" :> 1) @@ ("2" :> 2) @@ ("3" :> 3) @@ ("4" :> 4) @@
    ("5" :> 5) @@ ("6" :> 6) @@ ("7" :> 7) @@ ("8" :> 8) @@ ("9" :> 9)

\* int(s) for a string of digits
RECURSIVE IntOf(_)
IntOf(s) ==
    IF s = <<>> THEN 0
    ELSE 10 * IntOf(SubSeq(s, 1, Len(s) - 1)) + DigitValue[s[Len(s)]]

\* int(d.get(key, 0))
IntGet(d, key) ==
    IF key \in DOMAIN d THEN IntOf(d[key]) ELSE 0

\* the entry appended to comments for one item of a page
CommentOf(item) ==
    [text |-> item.textDisplay, like_count |-> IntGet(item, "likeCount")]

\* the response of commentThreads().list() to the p-th request for a video;
\* the service has nothing more to list after its last page, and a page
\* holds no more items than the maxResults it was asked for
PageResponse(pages, p) ==
    IF p <= Len(pages) THEN pages[p]
    ELSE [error |-> FALSE, items |-> <<>>, nextPageToken |-> FALSE]

\* mutant of comments_after_failure: a failed page drops what was fetched
comments_after_failure_Dropped(comments) ==
    <<>>

\* "except HttpError: break" followed by "return comments"
comments_after_failure(comments) ==
    comments

\* the loop of fetch_comments from its p-th request on
RECURSIVE FetchLoop(_, _, _, _)
FetchLoop(pages, p, comments, max_comments) ==
    IF Len(comments) >= max_comments THEN comments
    ELSE LET response == PageResponse(pages, p)
             fetched ==
                 comments \o [k \in 1..Len(response.items) |->
                                 CommentOf(response.items[k])]
         IN  IF response.error THEN comments_after_failure(comments)
             ELSE IF ~response.nextPageToken THEN fetched
             ELSE FetchLoop(pages, p + 1, fetched, max_comments)

\* YouTubeTool.fetch_comments; pages are the responses of the service for
\* the video
fetch_comments(pages, max_comments) ==
    FetchLoop(pages, 1, <<>>, max_comments)

\* the record search_youtube builds of one item of the videos response
RecordOf(keyword, item, comments) ==
    [platform |-> "youtube",
     keyword |-> keyword,
     video_id |-> item.id,
     title |-> item.snippet.title,
     description |-> item.snippet.description,
     channel |-> item.snippet.channelTitle,
     views |-> IntGet(item.statistics, "viewCount"),
     likes |-> IntGet(item.statistics, "likeCount"),
     comments_count |-> IntGet(item.statistics, "commentCount"),
     comments |-> comments]

\* YouTubeTool.search_youtube against the service: the records it returns,
\* whether a request raised HttpError out of it, and the kinds of request
\* it sent
search_youtube(keyword, service) ==
    LET r == service[keyword]
        items == r.videos.items
    IN  IF r.search.error
        THEN [raised |-> TRUE, records |-> <<>>, requests |-> {"search"}]
        ELSE IF r.search.items = <<>>
        THEN [raised |-> FALSE, records |-> <<>>, requests |-> {"search"}]
        ELSE IF r.videos.error
        THEN [raised |-> TRUE, records |-> <<>>,
              requests |-> {"search", "videos"}]
        ELSE [raised |-> FALSE,
              records |->
                  [k \in 1..Len(items) |->
                      RecordOf(keyword, items[k],
                               fetch_comments(r.threads[items[k].id],
                                              MaxComments))],
              requests |->
                  {"search", "videos"} \cup
                      (IF items = <<>> THEN {} ELSE {"commentThreads"})]

(***************************************************************************)
(* The service the agent talks to                                          *)
(***************************************************************************)
Video1 ==
    [id |-> "v1",
     snippet |-> [title |-> TitleAtomberg, description |-> DescriptionEmpty,
                  channelTitle |-> "fans"],
     statistics |-> [viewCount |-> <<"1", "0", "0">>, likeCount |-> <<"2">>,
                     commentCount |-> <<"3">>]]

\* a video whose likes and comment count are hidden
Video2 ==
    [id |-> "v2",
     snippet |-> [title |-> TitleUsha, description |-> DescriptionEmpty,
                  channelTitle |-> "reviews"],
     statistics |-> [viewCount |-> <<"7">>]]

ThreadBad ==
    [textDisplay |-> CommentBadAtomberg, likeCount |-> <<"1">>]

ThreadGreat ==
    [textDisplay |-> CommentTwoBrands, likeCount |-> <<"1", "2">>]

\* commentThreads().list() raises HttpError
ErrorPage ==
    [error |-> TRUE, items |-> <<>>, nextPageToken |-> FALSE]

Page(items, more) ==
    [error |-> FALSE, items |-> items, nextPageToken |-> more]

\* a page that holds as many comments as fetch_comments asks for
FullPage ==
    Page([k \in 1..MaxComments |-> ThreadGreat], TRUE)

\* the search raises HttpError
SearchFails ==
    [search |-> [error |-> TRUE, items |-> <<>>],
     videos |-> [error |-> FALSE, items |-> <<>>],
     threads |-> <<>>]

\* the search finds no video
SearchEmpty ==
    [search |-> [error |-> FALSE, items |-> <<>>],
     videos |-> [error |-> FALSE, items |-> <<>>],
     threads |-> <<>>]

\* the videos request raises HttpError
VideosFail ==
    [search |-> [error |-> FALSE, items |-> <<"v1">>],
     videos |-> [error |-> TRUE, items |-> <<>>],
     threads |-> <<>>]

\* the videos found, with the pages of comments the service has for each
Found(items, threads) ==
    [search |-> [error |-> FALSE, items |-> [k \in DOMAIN items |-> items[k].id]],
     videos |-> [error |-> FALSE, items |-> items],
     threads |-> threads]

\* one video whose comments are disabled
CommentsDisabled ==
    Found(<<Video1>>, [v \in {"v1"} |-> <<ErrorPage>>])

\* two videos: the second page of the first fails, the second has one page
LaterPageFails ==
    Found(<<Video1, Video2>>,
          ("v1" :> <<Page(<<ThreadBad>>, TRUE), ErrorPage>>) @@
          ("v2" :> <<Page(<<ThreadGreat>>, FALSE)>>))

\* one video with a full first page: the failing second page is not asked for
FullThenFails ==
    Found(<<Video2>>, [v \in {"v2"} |-> <<FullPage, ErrorPage>>])

\* two videos: the third page of the first fails, the first page of the second
ThirdPageFails ==
    Found(<<Video2, Video1>>,
          ("v2" :> <<Page(<<ThreadGreat>>, TRUE), Page(<<ThreadBad>>, TRUE),
                     ErrorPage>>) @@
          ("v1" :> <<ErrorPage>>))

SearchBehaviours ==
    {SearchFails, SearchEmpty, VideosFail, CommentsDisabled, LaterPageFails,
     FullThenFails, ThirdPageFails}

KeywordSet ==
    {KEYWORDS[k] : k \in DOMAIN KEYWORDS}

\* the services of the agent runs
Services ==
    [KeywordSet -> SearchBehaviours]

Secrets ==
    {"YOUTUBE_API_KEY", "GITHUB_TOKEN"}

(***************************************************************************)
(* The agent: module startup and main                                      *)
(***************************************************************************)
\* json.dump of a value into a document, json.load of a document
json_dump(v) ==
    [json |-> v]

json_load(doc) ==
    doc.json

\* mutant of secrets_present: the second secret is not looked for
secrets_present_YouTubeOnly(e) ==
    "YOUTUBE_API_KEY" \in e

\* both "if not ...: raise RuntimeError" of the module pass
secrets_present(e) ==
    "YOUTUBE_API_KEY" \in e /\ "GITHUB_TOKEN" \in e

\* mutant of collection_done: the loop is left after its first keyword
collection_done_Early(i) ==
    i > 1

\* "for kw in KEYWORDS" is exhausted
collection_done(i) ==
    i > Len(KEYWORDS)

\* the fresh interpreter of a run of the agent script
AgentStarts ==
    /\ pc' = "startup"
    /\ requests' = {}
    /\ exception' = "none"
    /\ kw_i' = 0
    /\ all_records' = <<>>
    /\ overall_sov' = NoResult
    /\ records_by_keyword' = EmptyDict
    /\ kw_keys' = <<>>
    /\ sov_by_keyword' = EmptyDict
    /\ idx' = 0
    /\ brands' = <<>>

\* the module body up to main's "all_records = []"
Startup ==
    /\ pc = "startup"
    /\ IF secrets_present(env)
       THEN /\ pc' = "collect"
            /\ kw_i' = 1
            /\ UNCHANGED exception
       ELSE /\ pc' = "exit"
            /\ exception' = "RuntimeError"
            /\ UNCHANGED kw_i
    /\ UNCHANGED <<env, youtube, requests, files>>
    /\ UNCHANGED <<matcherVars, aggregatorVars, sentimentVars, dashVars>>

\* one turn of "for kw in KEYWORDS": search_youtube and all_records.extend
CollectKeyword ==
    /\ pc = "collect"
    /\ ~collection_done(kw_i)
    /\ LET found == search_youtube(KEYWORDS[kw_i], youtube)
       IN  /\ requests' = requests \cup found.requests
           /\ IF found.raised
              THEN /\ pc' = "exit"
                   /\ exception' = "HttpError"
                   /\ UNCHANGED <<kw_i, all_records>>
              ELSE /\ all_records' = all_records \o found.records
                   /\ kw_i' = kw_i + 1
                   /\ UNCHANGED <<pc, exception>>
    /\ UNCHANGED <<env, youtube, files, matcherVars, computeLocals,
                   sentimentVars, dashVars>>

\* json.dump(all_records) into raw_youtube_records.json, then
\* brand_tool = BrandSentimentTool(BRANDS)
WriteRaw ==
    /\ pc = "collect"
    /\ collection_done(kw_i)
    /\ files' = [files EXCEPT !.raw = Some(json_dump(all_records))]
    /\ brands' = BRANDS
    /\ pc' = "compute_overall"
    /\ UNCHANGED <<text, counts, aggregatorVars, sentimentVars, dashVars>>
    /\ UNCHANGED <<env, youtube, requests, exception, kw_i>>

\* json.dump(overall_sov) into overall_sov.json
WriteOverall ==
    /\ pc = "returned"
    /\ files' = [files EXCEPT !.overall = Some(json_dump(overall_sov))]
    /\ pc' = "write_by_keyword"
    /\ UNCHANGED <<matcherVars, aggregatorVars, sentimentVars, dashVars>>
    /\ UNCHANGED <<env, youtube, requests, exception, kw_i>>

\* json.dump(sov_by_keyword) into sov_by_keyword.json
WriteByKeyword ==
    /\ pc = "write_by_keyword"
    /\ files' = [files EXCEPT !.by_kw = Some(json_dump(sov_by_keyword))]
    /\ pc' = "narrative"
    /\ UNCHANGED <<matcherVars, aggregatorVars, sentimentVars, dashVars>>
    /\ UNCHANGED <<env, youtube, requests, exception, kw_i>>

\* asyncio.run(agent.generate_insights(...)): the call returns the text or
\* raises, and nothing catches what it raises
Narrative ==
    /\ pc = "narrative"
    /\ requests' = requests \cup {"narrative"}
    /\ \E raised \in BOOLEAN :
        exception' = IF raised THEN "NarrativeError" ELSE "none"
    /\ pc' = "exit"
    /\ UNCHANGED <<matcherVars, aggregatorVars, sentimentVars, dashVars>>
    /\ UNCHANGED <<env, youtube, files, kw_i>>

\* the documents an earlier run left: it found one video for "smart fan"
EarlierRecords ==
    <<RecordOf("smart fan", Video1, <<CommentOf(ThreadGreat)>>)>>

EarlierFiles ==
    [raw |-> Some(json_dump(EarlierRecords)),
     overall |-> Some(json_dump(compute_for_records(EarlierRecords, BRANDS))),
     by_kw |->
        Some(json_dump([k \in {"smart fan"} |->
                            compute_for_records(EarlierRecords, BRANDS)]))]

\* the working directory when the agent starts
InitialFiles ==
    {NoFiles, EarlierFiles}

\* the agent script run from the command line
InitAgent ==
    /\ pc = "startup"
    /\ env \in SUBSET Secrets
    /\ youtube \in Services
    /\ files \in InitialFiles
    /\ requests = {}
    /\ exception = "none"
    /\ kw_i = 0
    /\ brands = <<>>
    /\ text = <<>>
    /\ counts = NoCounts
    /\ all_records = <<>>
    /\ overall_sov = NoResult
    /\ records_by_keyword = EmptyDict
    /\ kw_keys = <<>>
    /\ sov_by_keyword = EmptyDict
    /\ idx = 0
    /\ SentimentIdle
    /\ DashboardIdle

NextAgent ==
    \/ Startup
    \/ CollectKeyword
    \/ WriteRaw
    \/ ComputeOverall
    \/ GroupRecord
    \/ ComputeKeyword
    \/ Return
    \/ WriteOverall
    \/ WriteByKeyword
    \/ Narrative

SpecAgent ==
    InitAgent /\ [][NextAgent]_vars

(***************************************************************************)
(* The dashboard: one run of the script per interaction of the user        *)
(***************************************************************************)
\* os.path.exists(AGENT_SCRIPT): the agent script is a file of the
\* repository, at that path beside the dashboard script
AgentScriptExists ==
    TRUE

\* every keyword finds nothing
QuietService ==
    [kw \in KeywordSet |-> SearchEmpty]

\* the first keyword finds two videos, the others nothing
BusyService ==
    [kw \in KeywordSet |->
        IF kw = KEYWORDS[1] THEN LaterPageFails ELSE SearchEmpty]

\* the search of the second keyword fails
DownService ==
    [kw \in KeywordSet |->
        IF kw = KEYWORDS[2] THEN SearchFails ELSE CommentsDisabled]

\* the service at the time of a run launched by the dashboard
DashServices ==
    {QuietService, BusyService, DownService}

\* subprocess.run([sys.executable, AGENT_SCRIPT], check=True, ...) starts
LaunchAgent ==
    /\ AgentScriptExists
    /\ AgentStarts
    /\ youtube' \in DashServices
    /\ UNCHANGED <<env, files, text, counts, sentimentVars>>

\* subprocess.run raises CalledProcessError unless the script ends normally
run_succeeded(e) ==
    e = "none"

\* mutant of cache_after_run: the cached documents are kept after a run
cache_after_run_Kept(c, ok) ==
    c

\* the end of run_agent_pipeline: load_overall_sov.clear() and
\* load_sov_by_keyword.clear() when the script succeeded, "return False"
\* before them when it failed
cache_after_run(c, ok) ==
    IF ok THEN NoCache ELSE c

\* a function under st.cache_data called with its default path: the cached
\* value if there is one, else FileNotFoundError or the document just read,
\* which is cached
load_document(cached, file) ==
    IF cached # None
    THEN [raised |-> FALSE, value |-> cached, cached |-> cached]
    ELSE IF file = None
    THEN [raised |-> TRUE, value |-> None, cached |-> cached]
    ELSE [raised |-> FALSE, value |-> Some(json_load(file[1])),
          cached |-> Some(json_load(file[1]))]

\* the dashboard opened for the first time, beside whatever documents the
\* working directory holds
PartialFiles ==
    [EarlierFiles EXCEPT !.by_kw = None]

InitPipeline ==
    /\ dash = "load"
    /\ clicked = FALSE
    /\ reruns = 1
    /\ cache = NoCache
    /\ overall_raw = None
    /\ by_kw_raw = None
    /\ files \in {NoFiles, EarlierFiles, PartialFiles}
    /\ env \in {Secrets, {"YOUTUBE_API_KEY"}}
    /\ youtube = <<>>
    /\ pc = "idle"
    /\ requests = {}
    /\ exception = "none"
    /\ kw_i = 0
    /\ brands = <<>>
    /\ text = <<>>
    /\ counts = NoCounts
    /\ all_records = <<>>
    /\ overall_sov = NoResult
    /\ records_by_keyword = EmptyDict
    /\ kw_keys = <<>>
    /\ sov_by_keyword = EmptyDict
    /\ idx = 0
    /\ SentimentIdle

\* the user interacts with the page shown: the script runs again, and
\* st.sidebar.button(...) is true when the interaction is a click on it
Rerun ==
    /\ dash \in {"shown", "stopped"}
    /\ reruns < MaxReruns
    /\ reruns' = reruns + 1
    /\ overall_raw' = None
    /\ by_kw_raw' = None
    /\ \E button \in BOOLEAN :
        /\ clicked' = button
        /\ IF button
           THEN /\ dash' = "refresh"
                /\ LaunchAgent
           ELSE /\ dash' = "load"
                /\ UNCHANGED <<pc, matcherVars, aggregatorVars, sentimentVars,
                               agentVars>>
    /\ UNCHANGED cache

\* run_agent_pipeline returns to "if st.sidebar.button(...)"
RefreshReturns ==
    /\ dash = "refresh"
    /\ pc = "exit"
    /\ cache' = cache_after_run(cache, run_succeeded(exception))
    /\ dash' = "load"
    /\ UNCHANGED <<pc, matcherVars, aggregatorVars, sentimentVars, agentVars>>
    /\ UNCHANGED <<clicked, overall_raw, by_kw_raw, reruns>>

\* "try: overall_raw = load_overall_sov(); by_kw_raw = load_sov_by_keyword()"
\* and, on FileNotFoundError, the call of run_agent_pipeline
Load ==
    /\ dash = "load"
    /\ LET overall == load_document(cache.overall, files.overall)
           by_kw == load_document(cache.by_kw, files.by_kw)
       IN  IF overall.raised
           THEN /\ dash' = "recompute"
                /\ LaunchAgent
                /\ UNCHANGED <<cache, overall_raw, by_kw_raw>>
           ELSE IF by_kw.raised
           THEN /\ dash' = "recompute"
                /\ LaunchAgent
                /\ cache' = [cache EXCEPT !.overall = overall.cached]
                /\ overall_raw' = overall.value
                /\ UNCHANGED by_kw_raw
           ELSE /\ dash' = "shown"
                /\ cache' = [overall |-> overall.cached, by_kw |-> by_kw.cached]
                /\ overall_raw' = overall.value
                /\ by_kw_raw' = by_kw.value
                /\ UNCHANGED <<pc, matcherVars, aggregatorVars, sentimentVars,
                               agentVars>>
    /\ UNCHANGED <<clicked, reruns>>

\* run_agent_pipeline returns to the except branch: st.stop() when it
\* failed, else both documents are loaded again
RecomputeReturns ==
    /\ dash = "recompute"
    /\ pc = "exit"
    /\ IF ~run_succeeded(exception)
       THEN /\ dash' = "stopped"
            /\ cache' = cache_after_run(cache, FALSE)
            /\ UNCHANGED <<overall_raw, by_kw_raw>>
       ELSE LET cleared == cache_after_run(cache, TRUE)
                overall == load_document(cleared.overall, files.overall)
                by_kw == load_document(cleared.by_kw, files.by_kw)
            IN  /\ dash' = IF overall.raised \/ by_kw.raised
                           THEN "FileNotFoundError" ELSE "shown"
                /\ cache' = [overall |-> overall.cached,
                             by_kw |-> IF overall.raised THEN cleared.by_kw
                                       ELSE by_kw.cached]
                /\ overall_raw' = overall.value
                /\ by_kw_raw' = IF overall.raised THEN by_kw_raw ELSE by_kw.value
    /\ UNCHANGED <<pc, matcherVars, aggregatorVars, sentimentVars, agentVars>>
    /\ UNCHANGED <<clicked, reruns>>

NextPipeline ==
    \/ Rerun
    \/ RefreshReturns
    \/ Load
    \/ RecomputeReturns
    \/ Startup
    \/ CollectKeyword
    \/ WriteRaw
    \/ ComputeOverall
    \/ GroupRecord
    \/ ComputeKeyword
    \/ Return
    \/ WriteOverall
    \/ WriteByKeyword
    \/ Narrative

SpecPipeline ==
    InitPipeline /\ [][NextPipeline]_vars

(***************************************************************************)
(* Properties of the aggregator, stated on the records and the result      *)
(***************************************************************************)
\* _compute_for_records(all_records, brand_tool) has just returned
Computed ==
    pc = "group" /\ idx = 1

ResultBrands ==
    DOMAIN overall_sov.metrics

RecordIndexes ==
    1..Len(all_records)

RECURSIVE SumOverSet(_, _)
SumOverSet(f, S) ==
    IF S = {} THEN 0
    ELSE LET x == CHOOSE y \in S : TRUE
         IN  f[x] + SumOverSet(f, S \ {x})

RECURSIVE RatSumTo(_, _)
RatSumTo(f, n) ==
    IF n = 0 THEN RatZero ELSE RatAdd(f[n], RatSumTo(f, n - 1))

\* n / d as a share: 0 when the denominator is 0
Share(n, d) ==
    IF d = 0 THEN RatZero ELSE Rat(n, d)

RatShare(x, y) ==
    IF y.num = 0 THEN RatZero ELSE RatDiv(x, y)

\* the matches and the sentiment of every text of the record pool, by
\* catalog: detect_brands and sentiment_score tabulated
PostTextOf(rec) ==
    rec.title \o <<"\n">> \o rec.description

PostMatchTable ==
    [c \in AggregatorCatalogs |->
        [t \in {PostTextOf(rec) : rec \in RecordPool} |-> detect_brands(t, c)]]

CommentMatchTable ==
    [c \in AggregatorCatalogs |->
        [t \in CommentTexts |-> detect_brands(t, c)]]

SentimentTable ==
    [t \in CommentTexts |-> sentiment_score(t)]

\* title+description of record i mentions brand b
PostMentions(i, b) ==
    /\ b \in DOMAIN brands
    /\ PostMatchTable[brands][PostTextOf(all_records[i])][b] > 0

\* record i mentions at least one catalogued brand
PostMentionsAny(i) ==
    \E b \in DOMAIN brands : PostMentions(i, b)

\* views + 10 x likes + 20 x commentCount of record i
Weight(i) ==
    all_records[i].views + 10 * all_records[i].likes
        + 20 * all_records[i].comments_count

\* number of matches of the aliases of b in comment k of record i
CommentMatches(i, k, b) ==
    IF b \in DOMAIN brands
    THEN CommentMatchTable[brands][all_records[i].comments[k].text][b]
    ELSE 0

\* sentiment of comment k of record i
CommentSentiment(i, k) ==
    SentimentTable[all_records[i].comments[k].text]

\* the numerators of the four shares of brand b
ContentNumerator(b) ==
    Cardinality({i \in RecordIndexes : PostMentions(i, b)})

EngagementNumerator(b) ==
    SumTo([i \in RecordIndexes |-> IF PostMentions(i, b) THEN Weight(i) ELSE 0],
          Len(all_records))

CommentNumerator(b) ==
    SumTo([i \in RecordIndexes |->
              SumTo([k \in 1..Len(all_records[i].comments) |->
                        CommentMatches(i, k, b)],
                    Len(all_records[i].comments))],
          Len(all_records))

PositiveNumerator(b) ==
    RatSumTo([i \in RecordIndexes |->
                 RatSumTo([k \in 1..Len(all_records[i].comments) |->
                              IF /\ CommentMatches(i, k, b) > 0
                                 /\ CommentSentiment(i, k).num > 0
                              THEN CommentSentiment(i, k)
                              ELSE RatZero],
                          Len(all_records[i].comments))],
             Len(all_records))

\* the denominators: records mentioning any brand, counted once, for the
\* content share; the numerators added up over the brands for the others
ContentDenominator ==
    Cardinality({i \in RecordIndexes : PostMentionsAny(i)})

EngagementDenominator ==
    SumOverSet([b \in DOMAIN brands |-> EngagementNumerator(b)], DOMAIN brands)

CommentDenominator ==
    SumOverSet([b \in DOMAIN brands |-> CommentNumerator(b)], DOMAIN brands)

PositiveDenominator ==
    RatSumOverSet([b \in DOMAIN brands |-> PositiveNumerator(b)],
                  DOMAIN brands)

\* the sum of one share over the brands of the result
ShareSum(metric) ==
    RatSumOverSet([b \in ResultBrands |-> overall_sov.metrics[b][metric]],
                  ResultBrands)

\* the sum is 1 when a brand of the result has a nonzero numerator, else 0
SumsToOne(metric, nonzero) ==
    ShareSum(metric) = IF nonzero THEN RatOne ELSE RatZero

SomeRecordMentionsSeveral ==
    \E i \in RecordIndexes :
        Cardinality({b \in ResultBrands : PostMentions(i, b)}) >= 2

InUnitInterval(x) ==
    x.den > 0 /\ 0 <= x.num /\ x.num <= x.den

\* C2: every ratio of every brand of the result lies in [0, 1] and
\* posts_with_brand is an integer between 0 and the number of records.
C2_RatiosInUnitInterval ==
    Computed =>
        \A b \in ResultBrands :
            /\ InUnitInterval(overall_sov.metrics[b].sov_content)
            /\ InUnitInterval(overall_sov.metrics[b].sov_engagement)
            /\ InUnitInterval(overall_sov.metrics[b].sov_comments)
            /\ InUnitInterval(overall_sov.metrics[b].share_of_positive_voice)
            /\ overall_sov.metrics[b].posts_with_brand \in 0..Len(all_records)

\* a negative and a positive comment have been aggregated, and some shares
\* lie strictly between 0 and 1
C2_Witness ==
    /\ Computed
    /\ \E i \in RecordIndexes : \E k \in 1..Len(all_records[i].comments) :
            CommentSentiment(i, k).num < 0
    /\ \E b \in ResultBrands :
        /\ overall_sov.metrics[b].share_of_positive_voice.num > 0
        /\ overall_sov.metrics[b].share_of_positive_voice # RatOne
    /\ \E b \in ResultBrands :
        /\ overall_sov.metrics[b].sov_comments.num > 0
        /\ overall_sov.metrics[b].sov_comments # RatOne

\* the scenario of two records, the first naming only A with 100 views and
\* the second naming only B with 300 views
ScenarioRecords ==
    <<[keyword |-> "smart fan", title |-> TitleA,
       description |-> DescriptionEmpty,
       views |-> 100, likes |-> 0, comments_count |-> 0, comments |-> <<>>],
      [keyword |-> "bldc fan", title |-> TitleAtomberg,
       description |-> DescriptionB,
       views |-> 300, likes |-> 0, comments_count |-> 0, comments |-> <<>>]>>

\* C3: the result has one metrics entry for every brand of the catalog
\* given to the matcher; on the scenario with catalog {A, B} the content
\* shares are 1/2 and 1/2 and the engagement shares 1/4 and 3/4.
C3_EntryPerCatalogBrand ==
    Computed =>
        /\ ResultBrands = DOMAIN brands
        /\ (brands = CatalogAB /\ all_records = ScenarioRecords) =>
            /\ overall_sov.metrics["A"].sov_content = Rat(1, 2)
            /\ overall_sov.metrics["B"].sov_content = Rat(1, 2)
            /\ overall_sov.metrics["A"].sov_engagement = Rat(1, 4)
            /\ overall_sov.metrics["B"].sov_engagement = Rat(3, 4)

\* the weight of the records that mention at least one catalogued brand,
\* each record counted once
WeightOfMentioningRecords ==
    SumTo([i \in RecordIndexes |-> IF PostMentionsAny(i) THEN Weight(i) ELSE 0],
          Len(all_records))

\* C4 as stated: the engagement share of a brand is the weight
\* views + 10 x likes + 20 x commentCount summed over the records that
\* mention it, divided by that weight summed over the records that mention
\* at least one catalogued brand, and 0 when that denominator is 0.
C4_Original ==
    Computed =>
        LET total == WeightOfMentioningRecords
        IN  \A b \in ResultBrands :
                overall_sov.metrics[b].sov_engagement =
                    Share(EngagementNumerator(b), total)

\* C4 amended: the engagement share of a brand is the weight
\* views + 10 x likes + 20 x commentCount summed over the records that
\* mention it, divided by the sum of these numerators over all brands (a
\* record that mentions k brands adds k times its weight to the
\* denominator), and 0 when that denominator is 0; a record mentioning
\* several brands adds its full weight to the numerator of each.
C4_EngagementShare ==
    Computed =>
        LET total == EngagementDenominator
        IN  \A b \in ResultBrands :
                overall_sov.metrics[b].sov_engagement =
                    Share(EngagementNumerator(b), total)

\* a record naming two brands and carrying weight has been aggregated
\* together with likes and comment counts that weigh 10 and 20
C4_Witness ==
    /\ Computed
    /\ brands = BRANDS
    /\ \E i \in RecordIndexes :
        /\ Cardinality({b \in ResultBrands : PostMentions(i, b)}) >= 2
        /\ Weight(i) > 0
    /\ \E i \in RecordIndexes :
        /\ PostMentionsAny(i)
        /\ all_records[i].likes > 0
        /\ all_records[i].comments_count > 0
    /\ EngagementDenominator > WeightOfMentioningRecords
    /\ \E b \in ResultBrands : overall_sov.metrics[b].sov_engagement.num > 0

\* C5: the content share of a brand is the number of records whose
\* title+description mentions it divided by the number of records that
\* mention any catalogued brand, each counted once, and 0 when there is
\* none; posts_with_brand is the numerator.
C5_ContentShare ==
    Computed =>
        LET total == ContentDenominator
        IN  \A b \in ResultBrands :
                /\ overall_sov.metrics[b].posts_with_brand = ContentNumerator(b)
                /\ overall_sov.metrics[b].sov_content =
                    Share(ContentNumerator(b), total)

\* a record naming two brands and a record naming one have been counted
C5_Witness ==
    /\ Computed
    /\ SomeRecordMentionsSeveral
    /\ ContentDenominator = 2
    /\ \E b \in ResultBrands : overall_sov.metrics[b].posts_with_brand = 2
    /\ \E b \in ResultBrands : overall_sov.metrics[b].sov_content = Rat(1, 2)

\* C6: the comment share of a brand is the number of matches of its
\* aliases in all comments of all records divided by the number of matches
\* of all brands: occurrences are counted, and a record without comments
\* adds nothing.
C6_CommentShare ==
    Computed =>
        LET total == CommentDenominator
        IN  \A b \in ResultBrands :
                overall_sov.metrics[b].sov_comments =
                    Share(CommentNumerator(b), total)

\* a comment naming a brand three times has been aggregated with a comment
\* naming other brands
C6_Witness ==
    /\ Computed
    /\ \E i \in RecordIndexes : \E k \in 1..Len(all_records[i].comments) :
        \E b \in ResultBrands : CommentMatches(i, k, b) = 3
    /\ \E b \in ResultBrands :
        /\ CommentNumerator(b) >= 3
        /\ overall_sov.metrics[b].sov_comments.num > 0
        /\ overall_sov.metrics[b].sov_comments # RatOne

\* C7: the positive-voice share of a brand is the sum of the sentiment
\* scores of the comments that mention it and have a sentiment above 0,
\* divided by that sum added up over all brands; a comment with sentiment
\* at most 0 adds nothing and a positive comment adds its score once to
\* every brand it names, however often it names it.
C7_PositiveVoiceShare ==
    Computed =>
        LET total == PositiveDenominator
        IN  \A b \in ResultBrands :
                overall_sov.metrics[b].share_of_positive_voice =
                    RatShare(PositiveNumerator(b), total)

\* a positive comment naming one brand twice has been aggregated with a
\* positive comment naming two other brands
C7_Witness ==
    /\ Computed
    /\ \E i \in RecordIndexes : \E k \in 1..Len(all_records[i].comments) :
        \E b \in ResultBrands :
            CommentMatches(i, k, b) = 2 /\ CommentSentiment(i, k).num > 0
    /\ \E i \in RecordIndexes : \E k \in 1..Len(all_records[i].comments) :
        /\ Cardinality({b \in ResultBrands : CommentMatches(i, k, b) > 0}) = 2
        /\ CommentSentiment(i, k).num > 0
    /\ \E b \in ResultBrands :
        overall_sov.metrics[b].share_of_positive_voice = Rat(1, 3)

\* C8: a ratio whose denominator is zero is exactly 0.0 for every brand,
\* and no ratio is the outcome of a division by zero: with no record, with
\* records naming no brand, with brand-naming records of weight 0 and with
\* no comment naming a brand.
C8_ZeroDenominator ==
    Computed =>
        LET no_content == ContentDenominator = 0
            no_engagement == EngagementDenominator = 0
            no_comments == CommentDenominator = 0
            no_positive == PositiveDenominator.num = 0
        IN  \A b \in ResultBrands :
                /\ overall_sov.metrics[b].sov_content.den > 0
                /\ overall_sov.metrics[b].sov_engagement.den > 0
                /\ overall_sov.metrics[b].sov_comments.den > 0
                /\ overall_sov.metrics[b].share_of_positive_voice.den > 0
                /\ no_content =>
                    overall_sov.metrics[b].sov_content = RatZero
                /\ no_engagement =>
                    overall_sov.metrics[b].sov_engagement = RatZero
                /\ no_comments =>
                    overall_sov.metrics[b].sov_comments = RatZero
                /\ no_positive =>
                    overall_sov.metrics[b].share_of_positive_voice = RatZero

\* a record that names a brand and has no view, like or comment has been
\* aggregated: the content share is not 0 and the other three are
C8_Witness ==
    /\ Computed
    /\ all_records # <<>>
    /\ ContentDenominator > 0
    /\ EngagementDenominator = 0
    /\ CommentDenominator = 0
    /\ \E b \in ResultBrands :
        /\ overall_sov.metrics[b].sov_content = RatOne
        /\ overall_sov.metrics[b].sov_engagement = RatZero

\* the records of keyword k, in input order
RecordsOfKeyword(k) ==
    SelectSeq(all_records, LAMBDA rec : rec.keyword = k)

\* C9: compute_overall_and_by_keyword returns the reduction of the whole
\* list and, for exactly the keywords present in the input, the reduction
\* of the records of that keyword in input order.
C9_OverallAndByKeyword ==
    pc = "returned" =>
        /\ overall_sov = compute_for_records(all_records, brands)
        /\ DOMAIN sov_by_keyword =
                {all_records[i].keyword : i \in RecordIndexes}
        /\ \A k \in DOMAIN sov_by_keyword :
            /\ records_by_keyword[k] = RecordsOfKeyword(k)
            /\ sov_by_keyword[k] =
                compute_for_records(RecordsOfKeyword(k), brands)

\* a list with two keywords has been reduced, and the result of a keyword
\* differs from the overall result
C9_Witness ==
    /\ pc = "returned"
    /\ Cardinality(DOMAIN sov_by_keyword) = 2
    /\ \E k \in DOMAIN sov_by_keyword : sov_by_keyword[k] # overall_sov

(***************************************************************************)
(* Properties of the matcher                                               *)
(***************************************************************************)
\* positions at which alias occurs in txt as a whole word, ignoring case
Occurrences(alias, txt) ==
    {i \in 1..Len(txt) :
        /\ i + Len(alias) - 1 <= Len(txt)
        /\ lower(SubSeq(txt, i, i + Len(alias) - 1)) = lower(alias)
        /\ (i = 1 \/ txt[i - 1] \notin WordChars)
        /\ (i + Len(alias) > Len(txt) \/ txt[i + Len(alias)] \notin WordChars)}

\* the largest number of pairwise non-overlapping occurrences of length n
MaxDisjoint(P, n) ==
    LET Disjoint(S) == \A i \in S : \A j \in S : i < j => j - i >= n
        Sizes == {Cardinality(S) : S \in {T \in SUBSET P : Disjoint(T)}}
    IN  CHOOSE m \in Sizes : \A k \in Sizes : k <= m

\* every brand but atomberg has count 0 and atomberg at least 2 on the
\* example text of the matcher
ExampleCounts ==
    (brands = BRANDS /\ text = TextExample) =>
        /\ counts["atomberg"] >= 2
        /\ \A b \in DOMAIN BRANDS \ {"atomberg"} : counts[b] = 0

\* a brand's count is the one the matcher gives when the catalog holds
\* that brand alone
OwnAliasesOnly ==
    \A b \in DOMAIN brands :
        counts[b] = detect_brands(text, [c \in {b} |-> brands[b]])[b]

\* C10 as stated: detect_brands returns for every brand of the catalog the
\* sum over its aliases of the number of whole-word, case-insensitive
\* occurrences of the alias in the text, independently of the other brands;
\* on the example text atomberg counts at least 2 and every other brand 0.
C10_Original ==
    pc = "detected" =>
        /\ DOMAIN counts = DOMAIN brands
        /\ \A b \in DOMAIN brands :
            /\ counts[b] \in Nat
            /\ counts[b] =
                SumTo([k \in 1..Len(brands[b]) |->
                          Cardinality(Occurrences(brands[b][k], text))],
                      Len(brands[b]))
        /\ OwnAliasesOnly
        /\ ExampleCounts

\* C10 amended: the count of a brand is the sum over its aliases of the
\* number of non-overlapping whole-word, case-insensitive occurrences of the
\* alias (occurrences of one alias that overlap each other count once);
\* it depends on the brand's own aliases and the text only, and on the
\* example text atomberg counts at least 2 and every other brand 0.
C10_DetectBrandsCounts ==
    pc = "detected" =>
        /\ DOMAIN counts = DOMAIN brands
        /\ \A b \in DOMAIN brands :
            /\ counts[b] \in Nat
            /\ counts[b] =
                SumTo([k \in 1..Len(brands[b]) |->
                          MaxDisjoint(Occurrences(brands[b][k], text),
                                      Len(brands[b][k]))],
                      Len(brands[b]))
        /\ OwnAliasesOnly
        /\ ExampleCounts

\* the example text has been matched against BRANDS: both aliases of
\* atomberg were found
C10_Witness ==
    /\ pc = "detected"
    /\ brands = BRANDS
    /\ text = TextExample
    /\ counts["atomberg"] = 2

(***************************************************************************)
(* Properties of the sentiment score                                       *)
(***************************************************************************)
\* positions at which the lexicon word w occurs in the lowered text
SubstringOccurrences(w, text_l) ==
    {i \in 1..Len(text_l) :
        /\ i + Len(w) - 1 <= Len(text_l)
        /\ \A k \in 1..Len(w) : text_l[i + k - 1] = w[k]}

\* occurrences of the words of a lexicon, all of them
AllHits(words, text_l) ==
    SumTo([k \in 1..Len(words) |->
              Cardinality(SubstringOccurrences(words[k], text_l))],
          Len(words))

\* occurrences of the words of a lexicon, those of one word that overlap
\* each other counted once
DisjointHits(words, text_l) ==
    SumTo([k \in 1..Len(words) |->
              MaxDisjoint(SubstringOccurrences(words[k], text_l), Len(words[k]))],
          Len(words))

\* (p - n) / max(p + n, 1)
ScoreFormula(p, n) ==
    Rat(p - n, IF p + n > 1 THEN p + n ELSE 1)

\* the score is the formula of the hits p and n, lies in [-1, 1], is 0.0
\* without a hit and 1/3 on "good good bad"
ScoreIs(p, n) ==
    /\ score = Some(ScoreFormula(p, n))
    /\ RatLeq(Rat(0 - 1, 1), score[1])
    /\ RatLeq(score[1], RatOne)
    /\ (p = 0 /\ n = 0) => score[1] = RatZero
    /\ text = TextGoodGoodBad => score[1] = Rat(1, 3)

\* C11 as stated: sentiment_score returns (positive_hits - negative_hits) /
\* max(positive_hits + negative_hits, 1), the hits being the occurrences of
\* the lexicon words in the text; the result lies in [-1, 1], is 0.0 for a
\* text with no lexicon word and (2-1)/3 for "good good bad".
C11_Original ==
    pc = "scored" =>
        LET text_l == lower(text)
        IN  ScoreIs(AllHits(POSITIVE_WORDS, text_l), AllHits(NEGATIVE_WORDS, text_l))

\* C11 amended: the hits are the non-overlapping occurrences, ignoring case,
\* of each lexicon word as a substring of the text (two occurrences of one
\* word that overlap each other count once); the rest as stated.
C11_SentimentScore ==
    pc = "scored" =>
        LET text_l == lower(text)
        IN  ScoreIs(DisjointHits(POSITIVE_WORDS, text_l),
                    DisjointHits(NEGATIVE_WORDS, text_l))

\* a text with one positive word and two overlapping occurrences of
\* "disappointed" has been scored 0
C11_Witness ==
    /\ pc = "scored"
    /\ text = <<"g", "o", "o", "d", "d", "i", "s", "a", "p", "p", "o", "i", "n", "t", "e", "d", "i", "s", "a", "p", "p", "o", "i", "n", "t", "e", "d">>
    /\ score = Some(RatZero)

(***************************************************************************)
(* Properties of the collection                                            *)
(***************************************************************************)
\* the items the service lists for the k-th keyword, none when it finds none
ItemsOf(k) ==
    LET r == youtube[KEYWORDS[k]]
    IN  IF r.search.items = <<>> THEN <<>> ELSE r.videos.items

\* a search or videos request of the k-th keyword raises HttpError
ListingFails(k) ==
    LET r == youtube[KEYWORDS[k]]
    IN  r.search.error \/ (r.search.items # <<>> /\ r.videos.error)

\* the items of the first p pages
RECURSIVE PagesItems(_, _)
PagesItems(pages, p) ==
    IF p = 0 THEN <<>> ELSE PagesItems(pages, p - 1) \o pages[p].items

\* the requests of fetch_comments that raise HttpError: the p-th is sent when
\* every page before it came with a next page token and together they hold
\* fewer comments than fetch_comments asks for
FailedRequests(pages) ==
    {p \in 1..Len(pages) :
        /\ pages[p].error
        /\ \A q \in 1..(p - 1) : ~pages[q].error /\ pages[q].nextPageToken
        /\ Len(PagesItems(pages, p - 1)) < MaxComments}

\* the position in all_records of the record of item n of the k-th keyword
RecordIndex(k, n) ==
    SumTo([j \in 1..(k - 1) |-> Len(ItemsOf(j))], k - 1) + n

\* every keyword has been searched and nothing was written yet
Collected ==
    pc = "collect" /\ kw_i = Len(KEYWORDS) + 1

\* every item of every keyword has its record, in order
EveryItemCollected ==
    /\ Len(all_records) =
        SumTo([j \in 1..Len(KEYWORDS) |-> Len(ItemsOf(j))], Len(KEYWORDS))
    /\ \A k \in 1..Len(KEYWORDS) : \A n \in 1..Len(ItemsOf(k)) :
        /\ all_records[RecordIndex(k, n)].keyword = KEYWORDS[k]
        /\ all_records[RecordIndex(k, n)].video_id = ItemsOf(k)[n].id

\* the run ends with HttpError only for a search or videos request
OnlyListingAborts ==
    exception = "HttpError" =>
        /\ pc = "exit"
        /\ kw_i \in 1..Len(KEYWORDS)
        /\ ListingFails(kw_i)
        /\ \A j \in 1..(kw_i - 1) : ~ListingFails(j)

\* C13 as stated: when a comment fetch for one item fails (HttpError on the
\* first page or on any later page) the collection run is not aborted, the
\* remaining items and keywords are still collected, and the affected item's
\* record carries an empty comment list.
C13_Original ==
    /\ OnlyListingAborts
    /\ Collected =>
        /\ EveryItemCollected
        /\ \A k \in 1..Len(KEYWORDS) : \A n \in 1..Len(ItemsOf(k)) :
            FailedRequests(youtube[KEYWORDS[k]].threads[ItemsOf(k)[n].id]) # {}
                => all_records[RecordIndex(k, n)].comments = <<>>

\* C13 amended: the run is not aborted and the remaining items and keywords
\* are collected as stated; the affected item's record carries the comments
\* of the pages fetched before the failing one, an empty list when the first
\* page fails.
C13_CommentFetchFailure ==
    /\ OnlyListingAborts
    /\ Collected =>
        /\ EveryItemCollected
        /\ \A k \in 1..Len(KEYWORDS) : \A n \in 1..Len(ItemsOf(k)) :
            LET pages == youtube[KEYWORDS[k]].threads[ItemsOf(k)[n].id]
                got == all_records[RecordIndex(k, n)].comments
            IN  \A p \in FailedRequests(pages) :
                    LET before == PagesItems(pages, p - 1)
                    IN  /\ got = [i \in 1..Len(before) |-> CommentOf(before[i])]
                        /\ p = 1 => got = <<>>

\* the second page of the first video of the first keyword failed: its record
\* keeps the comment of the first page, and the other video and the other
\* keywords were collected, one of them with comments disabled
C13_Witness ==
    /\ Collected
    /\ youtube[KEYWORDS[1]] = LaterPageFails
    /\ youtube[KEYWORDS[2]] = CommentsDisabled
    /\ Len(all_records) >= 4
    /\ Len(all_records[1].comments) = 1
    /\ all_records[2].video_id = "v2"
    /\ all_records[3].keyword = KEYWORDS[2]
    /\ all_records[3].comments = <<>>
    /\ all_records[Len(all_records)].keyword = KEYWORDS[4]

(***************************************************************************)
(* Properties of a run of the agent                                        *)
(***************************************************************************)
\* C16: if YOUTUBE_API_KEY or GITHUB_TOKEN is missing the agent aborts with
\* a fatal error before any work begins: no search or comment request is
\* made, no persisted document is created or overwritten, and no narrative
\* call is made.
C16_MissingSecretsAbort ==
    ~(Secrets \subseteq env) =>
        /\ pc \in {"startup", "exit"}
        /\ pc = "exit" => exception = "RuntimeError"
        /\ requests = {}
        /\ files \in InitialFiles
        /\ all_records = <<>>

\* the agent found YOUTUBE_API_KEY and not GITHUB_TOKEN, and ended with
\* RuntimeError beside the documents of an earlier run
C16_Witness ==
    /\ env = {"YOUTUBE_API_KEY"}
    /\ pc = "exit"
    /\ exception = "RuntimeError"
    /\ files = EarlierFiles
    /\ requests = {}

\* the document has been written by this run: a run never writes what an
\* earlier run left, nor removes a document
Written(name) ==
    files[name] \notin {None, EarlierFiles[name]}

\* the keywords of a list of records
KeywordsOf(records) ==
    {records[i].keyword : i \in DOMAIN records}

\* the records of one keyword, in order
OfKeyword(records, kw) ==
    SelectSeq(records, LAMBDA rec : rec.keyword = kw)

\* the three documents hold one list of records and the metrics of that list
DerivedFromOneList ==
    LET records == json_load(files.raw[1])
    IN  /\ json_load(files.overall[1]) = compute_for_records(records, BRANDS)
        /\ json_load(files.by_kw[1]) =
            [kw \in KeywordsOf(records) |->
                compute_for_records(OfKeyword(records, kw), BRANDS)]

\* C17: a run writes the three documents only after collection has finished
\* for every keyword, in the order raw records, overall metrics, per-keyword
\* metrics, and all before the narrative call; if the search or the videos
\* request fails for a keyword the run aborts with no document created or
\* overwritten; in a run that reaches the narrative call the three documents
\* derive from the same list of records.
C17_WriteOrder ==
    /\ Written("raw") =>
        /\ kw_i = Len(KEYWORDS) + 1
        /\ json_load(files.raw[1]) = all_records
    /\ Written("overall") =>
        /\ Written("raw")
        /\ json_load(files.overall[1]) = overall_sov
    /\ Written("by_kw") =>
        /\ Written("overall")
        /\ json_load(files.by_kw[1]) = sov_by_keyword
    /\ (\E k \in 1..Len(KEYWORDS) : ListingFails(k)) =>
        /\ files \in InitialFiles
        /\ "narrative" \notin requests
        /\ pc \in {"startup", "collect", "exit"}
        /\ pc = "exit" => exception \in {"HttpError", "RuntimeError"}
    /\ pc \in {"startup", "collect"} => files \in InitialFiles
    /\ pc \in {"compute_overall", "group", "returned"} =>
        Written("raw") /\ ~Written("overall") /\ ~Written("by_kw")
    /\ pc = "write_by_keyword" =>
        Written("raw") /\ Written("overall") /\ ~Written("by_kw")
    /\ pc = "narrative" =>
        Written("raw") /\ Written("overall") /\ Written("by_kw")
    /\ "narrative" \in requests =>
        /\ pc = "exit"
        /\ Written("raw") /\ Written("overall") /\ Written("by_kw")
        /\ DerivedFromOneList

\* a run that collected records of several keywords has written the three
\* documents and made the narrative call
C17_Witness ==
    /\ pc = "exit"
    /\ "narrative" \in requests
    /\ Cardinality(KeywordsOf(all_records)) >= 2
    /\ Written("raw") /\ Written("overall") /\ Written("by_kw")
    /\ files.raw = Some(json_dump(all_records))

(***************************************************************************)
(* Properties of the dashboard                                             *)
(***************************************************************************)
\* the script of the dashboard has run to its end or to st.stop()
ScriptDone ==
    dash \in {"shown", "stopped", "FileNotFoundError"}

\* the dashboard displays the metrics of the two persisted documents
ShowsPersisted ==
    /\ dash = "shown"
    /\ files.overall # None
    /\ files.by_kw # None
    /\ overall_raw = Some(json_load(files.overall[1]))
    /\ by_kw_raw = Some(json_load(files.by_kw[1]))

\* C12: in every run in which the narrative call fails, the metrics are
\* still computed, both metrics documents are still persisted, and the
\* dashboard still displays them, also when the dashboard launched the run
\* because a document was missing or because of the refresh action.
C12_NarrativeFailureNonFatal ==
    (pc = "exit" /\ exception = "NarrativeError") =>
        /\ files.overall = Some(json_dump(overall_sov))
        /\ files.by_kw = Some(json_dump(sov_by_keyword))
        /\ ScriptDone => ShowsPersisted

\* C14: the refresh action re-runs collection and aggregation and
\* invalidates the cached copies of both documents: after every refresh the
\* metrics the dashboard displays are the ones persisted in overall_sov.json
\* and sov_by_keyword.json, never an older cached copy.
C14_RefreshShowsPersisted ==
    /\ dash = "refresh" => (clicked /\ pc # "idle")
    /\ (clicked /\ dash = "shown") => ShowsPersisted

====
